---- MODULE Spec2Model ----
(***************************************************************************)
(* Session query pipeline of the support agent (src/src/agent/index.ts):   *)
(* the event stream filter (sessionEvents), the answer assembler           *)
(* (extractAnswerFromEvents) and the query() pump with its token usage     *)
(* and error handling.                                                     *)
(***************************************************************************)
EXTENDS Integers, Sequences, FiniteSets, TLC

(***************************************************************************)
(* Bounds of the model: events the server delivers during one query, per   *)
(* event repertoire (feed).                                                *)
(***************************************************************************)
MaxStream == 3
MaxParts == 3
MaxMsgs == 2
MaxLive == 3
MaxLife == 2
MaxSpawns == 2
MaxOverlap == 1
MaxFetch == 1
MaxStderr == 2
WaitBound == 2

(***************************************************************************)
(* JavaScript values.  Every optional field has a sentinel of its own type *)
(* standing for undefined / null.                                          *)
(***************************************************************************)
NoSid == "<undefined>"
UndefStr == "<undefined>"
NullStr == "<null>"
NoNum == 0 - 1
UndefText == <<"<undefined>">>

\* JS truthiness of a string-or-undefined value ("" is falsy)
TruthyStr(s) == s \notin {UndefStr, NullStr, ""}

\* JS truthiness of a number-or-undefined value (0 is falsy)
TruthyNum(n) == n \notin {NoNum, 0}

\* a || b on numbers
OrNum(a, b) == IF TruthyNum(a) THEN a ELSE b

\* a || b on strings
OrStr(a, b) == IF TruthyStr(a) THEN a ELSE b

SessionIds == {"s1", "s2"}

(***************************************************************************)
(* Text is a sequence of characters.                                       *)
(***************************************************************************)
Whitespace == {" "}
Hel == <<"H", "e", "l">>
Hello == <<"H", "e", "l", "l", "o">>
SpWorld == <<" ", "w", "o", "r", "l", "d">>
HelloWorld == <<"H", "e", "l", "l", "o", " ", "w", "o", "r", "l", "d">>
Blank == <<" ">>
Texts == {Hel, Hello, SpWorld, Blank}
PartIds == {"a", "b"}

\* String(part.text ?? "")
TextOf(t) == IF t = UndefText THEN <<>> ELSE t

(***************************************************************************)
(* Events.  props.present = FALSE is an event without properties.          *)
(***************************************************************************)
NoPart == [id |-> "<undefined>", type |-> "<undefined>", role |-> "<undefined>", text |-> UndefText]
NoTokens == [present |-> FALSE, input |-> NoNum, output |-> NoNum, prompt |-> NoNum, completion |-> NoNum, total |-> NoNum]
NoInfo == [role |-> "<undefined>", tokens |-> NoTokens, cost |-> NoNum]
NoError == [present |-> FALSE, message |-> UndefStr, name |-> UndefStr]
NoProps == [present |-> FALSE, sid |-> NoSid, part |-> NoPart, info |-> NoInfo, error |-> NoError]

Props(sid, part, info, error) == [present |-> TRUE, sid |-> sid, part |-> part, info |-> info, error |-> error]

PartEvent(sid, part) == [type |-> "message.part.updated", props |-> Props(sid, part, NoInfo, NoError)]
MessageEvent(sid, info) == [type |-> "message.updated", props |-> Props(sid, NoPart, info, NoError)]
IdleEvent(sid) == [type |-> "session.idle", props |-> Props(sid, NoPart, NoInfo, NoError)]
ErrorEvent(sid, error) == [type |-> "session.error", props |-> Props(sid, NoPart, NoInfo, error)]
Heartbeat == [type |-> "server.heartbeat", props |-> NoProps]

TextPart(id, role, text) == [id |-> id, type |-> "text", role |-> role, text |-> text]
ToolPart == [id |-> "a", type |-> "tool", role |-> "assistant", text |-> Hel]
Tokens(i, o, p, c, t) == [present |-> TRUE, input |-> i, output |-> o, prompt |-> p, completion |-> c, total |-> t]
Info(role, tokens, cost) == [role |-> role, tokens |-> tokens, cost |-> cost]
Err(message, name) == [present |-> TRUE, message |-> message, name |-> name]

(***************************************************************************)
(* Event repertoires of the server, one per feed.                          *)
(***************************************************************************)
Sids == SessionIds \cup {NoSid}

IdleEvents == {IdleEvent(s) : s \in SessionIds}

StreamEvents ==
  {IdleEvent(s) : s \in Sids}
    \cup {PartEvent(s, TextPart("a", "assistant", Hel)) : s \in Sids}
    \cup {MessageEvent(s, Info("assistant", Tokens(10, 5, NoNum, NoNum, NoNum), NoNum)) : s \in Sids}
    \cup {ErrorEvent(s, Err("m1", "E1")) : s \in Sids}
    \cup {ErrorEvent("s1", e) : e \in {Err("m2", "E2"), Err(UndefStr, "E1"), Err("", ""), NoError}}
    \cup {Heartbeat}

AllParts ==
  {TextPart(id, "assistant", text) : id \in PartIds, text \in Texts \cup {UndefText}}
    \cup {TextPart(id, "user", text) : id \in PartIds, text \in {Hel, Hello}}
    \cup {ToolPart, NoPart}

PartsEvents == {PartEvent(NoSid, p) : p \in AllParts} \cup IdleEvents

AllTokens ==
  {Tokens(i, o, p, c, t) : i \in {NoNum, 10}, o \in {NoNum, 5}, p \in {NoNum, 3},
                           c \in {NoNum, 2}, t \in {NoNum, 0, 16}}

AllInfos ==
  {Info("assistant", tk, NoNum) : tk \in AllTokens}
    \cup {Info("assistant", NoTokens, NoNum), Info("assistant", Tokens(3, 2, NoNum, NoNum, NoNum), 1),
          Info("user", Tokens(10, 5, NoNum, NoNum, 16), NoNum), NoInfo}

MsgsEvents == {MessageEvent(NoSid, i) : i \in AllInfos} \cup IdleEvents

LiveEvents ==
  IdleEvents
    \cup {ErrorEvent(s, Err("m1", "E1")) : s \in SessionIds}
    \cup {PartEvent(NoSid, TextPart("a", "assistant", Hel))}

LifeEvents ==
  IdleEvents \cup {ErrorEvent(s, Err("m1", "E1")) : s \in SessionIds}

Feeds == {"stream", "parts", "msgs", "live", "life", "select", "wait"}

Repertoire(f) ==
  CASE f = "stream" -> StreamEvents
    [] f = "parts" -> PartsEvents
    [] f = "msgs" -> MsgsEvents
    [] f = "live" -> LiveEvents
    [] f = "life" -> LifeEvents
    [] f = "select" -> IdleEvents
    [] f = "wait" -> IdleEvents

MaxEvents(f) ==
  CASE f = "stream" -> MaxStream
    [] f = "parts" -> MaxParts
    [] f = "msgs" -> MaxMsgs
    [] f = "live" -> MaxLive
    [] f = "life" -> MaxLife
    [] f = "select" -> MaxLive
    [] f = "wait" -> MaxLive

\* children start() may spawn in a run: the life feed exercises restarts
MaxStarts(f) == IF f = "life" THEN MaxSpawns ELSE 1

\* messages of the errors the transport may throw ("" is new Error(""))
ThrownMessages == {"", "socket closed"}

(***************************************************************************)
(* Model strings "provider/model" and their parsing in query().            *)
(***************************************************************************)
DefaultModel == <<"p", "/", "m">>
Models == {DefaultModel, <<"q", "/", "n">>, <<"p", "m">>, <<"p", "/">>}
ThinkingModes == {"low", "medium", "high"}
DefaultThinkingMode == "medium"
NoPath == "<null>"
RepositoryPaths == {"/repo"}

\* String.prototype.split("/")
RECURSIVE Split(_)
Split(str) ==
  IF \A i \in 1..Len(str) : str[i] # "/"
    THEN <<str>>
    ELSE LET k == CHOOSE i \in 1..Len(str) :
                    str[i] = "/" /\ \A j \in 1..(i - 1) : str[j] # "/"
         IN <<SubSeq(str, 1, k - 1)>> \o Split(SubSeq(str, k + 1, Len(str)))

\* const [providerID, modelID] = this._currentModel.split("/")
ProviderIDOf(modelString) == Split(modelString)[1]
ModelIDOf(modelString) ==
  IF Len(Split(modelString)) >= 2 THEN Split(modelString)[2] ELSE UndefText

(***************************************************************************)
(* Provider discovery.                                                     *)
(***************************************************************************)
ALLOWED_PROVIDERS ==
  <<"zai", "opencode", "google", "openai", "deepseek", "xai", "anthropic", "mistral">>

\* ALLOWED_PROVIDERS.includes(id)
IsAllowed(id) == \E i \in 1..Len(ALLOWED_PROVIDERS) : ALLOWED_PROVIDERS[i] = id

\* ALLOWED_PROVIDERS.indexOf(id)
IndexOfAllowed(id) == CHOOSE i \in 1..Len(ALLOWED_PROVIDERS) : ALLOWED_PROVIDERS[i] = id

\* Array.prototype.filter
RECURSIVE FilterAllowed(_)
FilterAllowed(ids) ==
  IF ids = <<>> THEN <<>>
  ELSE (IF IsAllowed(Head(ids)) THEN <<Head(ids)>> ELSE <<>>) \o FilterAllowed(Tail(ids))

\* insertion of one provider into a list sorted by allow-list index (stable)
RECURSIVE InsertSorted(_, _)
InsertSorted(sorted, id) ==
  IF sorted = <<>> THEN <<id>>
  ELSE IF IndexOfAllowed(id) < IndexOfAllowed(Head(sorted))
         THEN <<id>> \o sorted
         ELSE <<Head(sorted)>> \o InsertSorted(Tail(sorted), id)

\* Array.prototype.sort by ALLOWED_PROVIDERS.indexOf
RECURSIVE SortAllowed(_)
SortAllowed(ids) ==
  IF ids = <<>> THEN <<>>
  ELSE InsertSorted(SortAllowed(SubSeq(ids, 1, Len(ids) - 1)), ids[Len(ids)])

\* response.data of client.provider.list(): NoData, or the ids of data.all
NoData == <<"<undefined>">>
ListResponses ==
  {NoData, <<>>, <<"openai", "ollama", "zai">>, <<"mistral", "google">>,
   <<"google", "ollama", "zai", "google">>}

\* the providers and the models the server may report
ProviderIds == {"openai", "ollama", "zai", "mistral", "google"}
ModelIds == {"glm-4.7", "gpt-5", "text-embedding-3", "gemini-2.5-flash", "gemini-2.0-flash"}
NoProvider == "<null>"

\* provider.models as the server reports it (Object.keys order); mistral
\* comes without models
ModelsOf(id) ==
  CASE id = "zai" -> <<"glm-4.7">>
    [] id = "openai" -> <<"text-embedding-3", "gpt-5">>
    [] id = "google" -> <<"gemini-2.0-flash", "gemini-2.5-flash">>
    [] OTHER -> <<>>

\* the model ids one of excludedModelPatterns matches (/embedding/i,
\* /gemini-2\.0/i)
ExcludedModelIds == {"text-embedding-3", "gemini-2.0-flash"}

RECURSIVE filterModels(_)
filterModels(models) ==
  IF models = <<>> THEN <<>>
  ELSE IF Head(models) \in ExcludedModelIds THEN filterModels(Tail(models))
  ELSE <<Head(models)>> \o filterModels(Tail(models))

FREE_PROVIDERS == {"zai", "opencode"}
NoEnvVar == "<undefined>"

\* PROVIDER_API_KEYS[providerId]
getApiKeyEnvVar(id) ==
  CASE id = "google" -> "GOOGLE_API_KEY"
    [] id = "openai" -> "OPENAI_API_KEY"
    [] id = "anthropic" -> "ANTHROPIC_API_KEY"
    [] id = "deepseek" -> "DEEPSEEK_API_KEY"
    [] id = "xai" -> "XAI_API_KEY"
    [] id = "mistral" -> "MISTRAL_API_KEY"
    [] OTHER -> NoEnvVar

EnvVars == {"GOOGLE_API_KEY", "OPENAI_API_KEY", "ANTHROPIC_API_KEY", "DEEPSEEK_API_KEY",
            "XAI_API_KEY", "MISTRAL_API_KEY"}

requiresApiKey(id) == id \notin FREE_PROVIDERS

\* envVar ? !!process.env[envVar] : true
hasApiKey(id, environment) ==
  IF getApiKeyEnvVar(id) # NoEnvVar THEN getApiKeyEnvVar(id) \in environment ELSE TRUE

\* the variables a .env file may have set when the program starts
InitialEnvs(f) == IF f = "select" THEN {{}, {"OPENAI_API_KEY"}} ELSE {{}}

\* `${selectedProvider.id}/${modelId}`
FullModelId(id, modelId) == <<id, "/", modelId>>

(***************************************************************************)
(* Event Stream Filter: the generator of sessionEvents.                    *)
(***************************************************************************)
\* an event the generator skips (`continue`): it carries a sessionID that
\* differs from the target
DiscardsInverted(event, sid) ==
  event.props.present /\ event.props.sid # NoSid /\ event.props.sid = sid

Discards(event, sid) ==
  event.props.present /\ event.props.sid # NoSid /\ event.props.sid # sid

\* the generator returns after yielding this event
IsTerminalIdleInverted(event, sid) ==
  event.type = "session.idle" /\ event.props.sid # sid

IsTerminalIdle(event, sid) ==
  event.type = "session.idle" /\ event.props.sid = sid

(***************************************************************************)
(* Answer Assembler: extractAnswerFromEvents.                              *)
(***************************************************************************)
Includes(seq, x) == \E i \in 1..Len(seq) : seq[i] = x

QualifiesAnyRole(event) ==
  /\ event.type = "message.part.updated"
  /\ event.props.part # NoPart
  /\ event.props.part.type = "text"

\* the events the loop does not `continue` over
Qualifies(event) ==
  /\ event.type = "message.part.updated"
  /\ event.props.part # NoPart
  /\ event.props.part.type = "text"
  /\ event.props.part.role # "user"

PushIdFront(partIds, id) == IF Includes(partIds, id) THEN partIds ELSE <<id>> \o partIds

\* if (!partIds.includes(part.id)) partIds.push(part.id)
PushId(partIds, id) == IF Includes(partIds, id) THEN partIds ELSE Append(partIds, id)

\* partText.get(id) ?? ""
GetText(partText, id) == IF id \in DOMAIN partText THEN partText[id] ELSE <<>>

SetTextDelta(partText, id, text) == (id :> (GetText(partText, id) \o TextOf(text))) @@ partText

\* partText.set(part.id, String(part.text ?? ""))
SetText(partText, id, text) == (id :> TextOf(text)) @@ partText

AsmStep(acc, event) ==
  IF Qualifies(event)
    THEN [partIds |-> PushId(acc.partIds, event.props.part.id),
          partText |-> SetText(acc.partText, event.props.part.id, event.props.part.text)]
    ELSE acc

RECURSIVE AsmFold(_)
AsmFold(events) ==
  IF events = <<>>
    THEN [partIds |-> <<>>, partText |-> <<>>]
    ELSE AsmStep(AsmFold(SubSeq(events, 1, Len(events) - 1)), events[Len(events)])

\* partIds.map(id => partText.get(id) ?? "").join("")
RECURSIVE Join(_, _)
Join(partIds, partText) ==
  IF partIds = <<>> THEN <<>>
  ELSE GetText(partText, Head(partIds)) \o Join(Tail(partIds), partText)

RECURSIVE TrimStart(_)
TrimStart(s) ==
  IF s # <<>> /\ Head(s) \in Whitespace THEN TrimStart(Tail(s)) ELSE s

RECURSIVE TrimEnd(_)
TrimEnd(s) ==
  IF s # <<>> /\ s[Len(s)] \in Whitespace THEN TrimEnd(SubSeq(s, 1, Len(s) - 1)) ELSE s

\* String.prototype.trim
Trim(s) == TrimEnd(TrimStart(s))

extractAnswerFromEvents(events) ==
  LET acc == AsmFold(events) IN Trim(Join(acc.partIds, acc.partText))

(***************************************************************************)
(* Body of the pump loop of query().                                       *)
(***************************************************************************)
NoUsage == [inputTokens |-> NoNum, outputTokens |-> NoNum, totalTokens |-> NoNum, cost |-> NoNum]

\* props?.info?.role === "assistant" && props?.info?.tokens
CapturesTokens(event) ==
  /\ event.type = "message.updated"
  /\ event.props.info.role = "assistant"
  /\ event.props.info.tokens.present

\* tokens.total || (tokens.input || 0) + (tokens.output || 0)
TotalOf(tokens) == OrNum(tokens.total, OrNum(tokens.input, 0) + OrNum(tokens.output, 0))

TokenUsageOf(info) ==
  [inputTokens |-> OrNum(OrNum(info.tokens.input, info.tokens.prompt), 0),
   outputTokens |-> OrNum(OrNum(info.tokens.output, info.tokens.completion), 0),
   totalTokens |-> TotalOf(info.tokens),
   cost |-> IF TruthyNum(info.cost) THEN info.cost ELSE NoNum]

\* props?.error?.data?.message || props?.error?.name || "Unknown error occurred"
ErrorMessageOf(event) ==
  OrStr(OrStr(event.props.error.message, event.props.error.name), "Unknown error occurred")

NextTokenUsage(usage, event) ==
  IF CapturesTokens(event) THEN TokenUsageOf(event.props.info) ELSE usage

NextSessionError(err, event) ==
  IF event.type = "session.error" THEN ErrorMessageOf(event) ELSE err

FailsOnAnyString(err) == err # NullStr

\* if (sessionError) throw new Error(sessionError)
Fails(err) == TruthyStr(err)

Placeholder == <<"(No response received)">>

\* the assembled text as it is
ResponseOfRaw(events) == extractAnswerFromEvents(events)

\* responseText || "(No response received)"
ResponseOf(events) ==
  LET responseText == extractAnswerFromEvents(events)
  IN IF responseText # <<>> THEN responseText ELSE Placeholder

(***************************************************************************)
(* State.                                                                  *)
(*   feed             the event repertoire the server draws from           *)
(*   client           this.client is set                                   *)
(*   currentSessionId this.currentSessionId (NoSid is null)                *)
(*   serverProc       this.serverProc: the child it refers to (NoProc is   *)
(*                    null)                                                *)
(*   children         the child processes spawned so far and their status  *)
(*   currentModel, currentMode, repositoryPath   configuration fields      *)
(*   pc               position of the call in flight                       *)
(*   sessionID        target of the filter (argument of sessionEvents)     *)
(*   consumed         events the generator has pulled from events.stream   *)
(*   collectedEvents, tokenUsage, sessionError   locals of query()         *)
(*   thrown           message of the error thrown by the stream, if any    *)
(*   outcome          how the last call ended                              *)
(*   remote           remote calls issued by the call in flight (or last)  *)
(*   prompt           the prompt submitted by the call in flight (or last) *)
(*   created          sessions created since the server was started        *)
(*   signals          termination signals sent by the last stop()          *)
(*   overlapping      the query() calls begun while another call was in    *)
(*                    flight, each with its position and its session       *)
(*   state, availableProviders, selectedProvider, filteredModels           *)
(*                    the interaction state of the line handler            *)
(*   env              the environment variables that are set and non-empty *)
(*   fetching         line handlers suspended in getAvailableModels()      *)
(*   handled          the line the handler took last, the selection state  *)
(*                    and the model it found and the list it offered       *)
(*   wait             the readiness wait of start(): its position, its     *)
(*                    locals, the pipes of the child and the drains        *)
(***************************************************************************)
VARIABLES feed, client, currentSessionId, pc, sessionID, consumed,
          collectedEvents, tokenUsage, sessionError, thrown, outcome,
          serverProc, children, currentModel, currentMode, repositoryPath,
          remote, prompt, created, signals, overlapping,
          state, availableProviders, selectedProvider, filteredModels, env, fetching,
          wait, handled

replVars == <<state, availableProviders, selectedProvider, filteredModels, env, fetching>>
agentVars == <<client, currentSessionId>>
pumpVars == <<consumed, collectedEvents, tokenUsage, sessionError, thrown>>
procVars == <<serverProc, children>>
configVars == <<currentModel, currentMode, repositoryPath>>
traceVars == <<remote, prompt, created, signals>>
vars == <<feed, client, currentSessionId, pc, sessionID, consumed,
          collectedEvents, tokenUsage, sessionError, thrown, outcome,
          serverProc, children, currentModel, currentMode, repositoryPath,
          remote, prompt, created, signals, overlapping,
          state, availableProviders, selectedProvider, filteredModels, env, fetching,
          wait, handled>>

NoProc == 0

\* the readiness wait before start() was called: no child, empty pipes
\* no line was handled yet
NoLine == [input |-> <<>>, from |-> "normal", before |-> <<>>, offered |-> <<>>, tick |-> 0]

NoWait == [pos |-> "none", child |-> NoProc, serverUrl |-> FALSE, elapsed |-> 0,
           stdoutPending |-> FALSE, stderrPending |-> <<>>, written |-> <<>>,
           captured |-> <<>>, reported |-> {}]
NoPrompt == [session |-> NoSid, providerID |-> UndefText, modelID |-> UndefText, status |-> "none"]

NoOutcome == [op |-> "none", kind |-> "none", response |-> <<>>, tokenUsage |-> NoUsage, message |-> NullStr, providers |-> <<>>, data |-> NoData]
Returned(response, usage) == [op |-> "query", kind |-> "result", response |-> response, tokenUsage |-> usage, message |-> NullStr, providers |-> <<>>, data |-> NoData]
Threw(message) == [op |-> "query", kind |-> "error", response |-> <<>>, tokenUsage |-> NoUsage, message |-> message, providers |-> <<>>, data |-> NoData]
ThrewFrom(op, message) == [op |-> op, kind |-> "error", response |-> <<>>, tokenUsage |-> NoUsage, message |-> message, providers |-> <<>>, data |-> NoData]
Done(op) == [op |-> op, kind |-> "done", response |-> <<>>, tokenUsage |-> NoUsage, message |-> NullStr, providers |-> <<>>, data |-> NoData]
Listed(providers, data) == [op |-> "providers", kind |-> "done", response |-> <<>>, tokenUsage |-> NoUsage, message |-> NullStr, providers |-> providers, data |-> data]

InitFeed(f) ==
  /\ feed = f
  /\ client = FALSE
  /\ currentSessionId = NoSid
  /\ pc = "idle"
  /\ sessionID = NoSid
  /\ consumed = <<>>
  /\ collectedEvents = <<>>
  /\ tokenUsage = NoUsage
  /\ sessionError = NullStr
  /\ thrown = NullStr
  /\ outcome = NoOutcome
  /\ serverProc = NoProc
  /\ children = <<>>
  /\ currentModel = DefaultModel
  /\ currentMode = DefaultThinkingMode
  /\ repositoryPath = NoPath
  /\ remote = {}
  /\ prompt = NoPrompt
  /\ created = 0
  /\ signals = 0
  /\ overlapping = <<>>
  /\ state = "normal"
  /\ availableProviders = <<>>
  /\ selectedProvider = NoProvider
  /\ filteredModels = <<>>
  /\ env \in InitialEnvs(f)
  /\ fetching = 0
  /\ wait = NoWait
  /\ handled = NoLine

Init == InitFeed("stream")
InitParts == InitFeed("parts")
InitMsgs == InitFeed("msgs")
InitLive == InitFeed("live")
InitLife == InitFeed("life")
InitSelect == InitFeed("select")
InitWait == InitFeed("wait")

\* a new call starts with fresh locals
FreshLocals ==
  /\ sessionID' = NoSid
  /\ consumed' = <<>>
  /\ collectedEvents' = <<>>
  /\ tokenUsage' = NoUsage
  /\ sessionError' = NullStr
  /\ thrown' = NullStr
  /\ remote' = {}
  /\ prompt' = NoPrompt

\* the guard left out
NotStartedIgnored == FALSE

\* if (!this.client) throw new Error("Agent not started")
NotStarted == ~client

(***************************************************************************)
(* The server process: spawnServer and stopServer.                         *)
(***************************************************************************)
Listening(ch) == {k \in DOMAIN ch : ch[k] = "listening"}
Alive(ch) == {k \in DOMAIN ch : ch[k] # "dead"}

\* killPort: best effort, kills the process that listens on the port
KillPort(ch, works) ==
  IF works THEN [k \in DOMAIN ch |-> IF ch[k] = "listening" THEN "dead" ELSE ch[k]]
  ELSE ch

\* proc.kill()
Kill(ch, k) == [ch EXCEPT ![k] = "dead"]

\* the signal is sent whatever the handle
SendsSignalAlways(proc) == TRUE

\* stopServer(proc): if (proc) { proc.kill(); wait }
SendsSignal(proc) == proc # NoProc

\* start(): the child announces its URL; the handle and the client are set
Start ==
  /\ pc = "idle"
  /\ Len(children) < MaxStarts(feed)
  /\ \E works \in BOOLEAN :
       LET freed == KillPort(children, works)
       IN /\ Listening(freed) = {}
          /\ children' = Append(freed, "listening")
  /\ serverProc' = Len(children) + 1
  /\ client' = TRUE
  /\ created' = 0
  /\ outcome' = Done("start")
  /\ FreshLocals
  /\ UNCHANGED <<feed, wait, handled, overlapping, replVars, currentSessionId, pc, configVars, signals>>

\* start(): the child exits before it is ready (it cannot bind the port when
\* another child still listens); spawnServer throws
StartExited ==
  /\ pc = "idle"
  /\ Len(children) < MaxStarts(feed)
  /\ \E works \in BOOLEAN : children' = Append(KillPort(children, works), "dead")
  /\ outcome' = ThrewFrom("start", "Server failed to start")
  /\ FreshLocals
  /\ UNCHANGED <<feed, wait, handled, overlapping, replVars, agentVars, pc, serverProc, configVars, created, signals>>

\* start(): the child does not announce its URL within the bound; spawnServer
\* throws and the child keeps running
StartTimedOut ==
  /\ pc = "idle"
  /\ Len(children) < MaxStarts(feed)
  /\ \E works \in BOOLEAN : children' = Append(KillPort(children, works), "hung")
  /\ outcome' = ThrewFrom("start", "Timeout waiting for server to start")
  /\ FreshLocals
  /\ UNCHANGED <<feed, wait, handled, overlapping, replVars, agentVars, pc, serverProc, configVars, created, signals>>

\* stop() that keeps the cached session
StopKeepsSession ==
  /\ pc = "idle"
  /\ IF SendsSignal(serverProc)
       THEN children' = Kill(children, serverProc) /\ signals' = 1
       ELSE children' = children /\ signals' = 0
  /\ serverProc' = NoProc
  /\ client' = FALSE
  /\ created' = 0
  /\ outcome' = Done("stop")
  /\ sessionID' = NoSid
  /\ consumed' = <<>>
  /\ collectedEvents' = <<>>
  /\ tokenUsage' = NoUsage
  /\ sessionError' = NullStr
  /\ thrown' = NullStr
  /\ remote' = {}
  /\ prompt' = NoPrompt
  /\ UNCHANGED <<feed, wait, handled, overlapping, replVars, currentSessionId, pc, configVars>>

\* stop()
Stop ==
  /\ pc = "idle"
  /\ IF SendsSignal(serverProc)
       THEN children' = Kill(children, serverProc) /\ signals' = 1
       ELSE children' = children /\ signals' = 0
  /\ serverProc' = NoProc
  /\ client' = FALSE
  /\ currentSessionId' = NoSid
  /\ created' = 0
  /\ outcome' = Done("stop")
  /\ sessionID' = NoSid
  /\ consumed' = <<>>
  /\ collectedEvents' = <<>>
  /\ tokenUsage' = NoUsage
  /\ sessionError' = NullStr
  /\ thrown' = NullStr
  /\ remote' = {}
  /\ prompt' = NoPrompt
  /\ UNCHANGED <<feed, wait, handled, overlapping, replVars, pc, configVars>>

\* setModel(modelString)
SetModel ==
  /\ pc = "idle"
  /\ \E m \in Models : currentModel' = m
  /\ outcome' = Done("setModel")
  /\ FreshLocals
  /\ UNCHANGED <<feed, wait, handled, overlapping, replVars, agentVars, pc, procVars, currentMode, repositoryPath,
                 created, signals>>

\* setThinkingMode(mode)
SetThinkingMode ==
  /\ pc = "idle"
  /\ \E m \in ThinkingModes : currentMode' = m
  /\ outcome' = Done("setThinkingMode")
  /\ FreshLocals
  /\ UNCHANGED <<feed, wait, handled, overlapping, replVars, agentVars, pc, procVars, currentModel, repositoryPath,
                 created, signals>>

\* setSessionId(sessionId)
SetSessionId ==
  /\ pc = "idle"
  /\ \E id \in SessionIds : currentSessionId' = id
  /\ outcome' = Done("setSessionId")
  /\ FreshLocals
  /\ UNCHANGED <<feed, wait, handled, overlapping, replVars, client, pc, procVars, configVars, created, signals>>

\* setRepositoryPath(path)
SetRepositoryPath ==
  /\ pc = "idle"
  /\ \E path \in RepositoryPaths : repositoryPath' = path
  /\ outcome' = Done("setRepositoryPath")
  /\ FreshLocals
  /\ UNCHANGED <<feed, wait, handled, overlapping, replVars, agentVars, pc, procVars, currentModel, currentMode,
                 created, signals>>

(***************************************************************************)
(* getAvailableProviders().                                                *)
(***************************************************************************)
\* the listing filtered and left in the server's order
ListResultUnsorted(data) ==
  IF data = NoData THEN Listed(<<>>, data) ELSE Listed(FilterAllowed(data), data)

\* if (!response.data) return []
ListResult(data) ==
  IF data = NoData THEN Listed(<<>>, data) ELSE Listed(SortAllowed(FilterAllowed(data)), data)

ProvidersNotStarted ==
  /\ pc = "idle"
  /\ NotStarted
  /\ outcome' = ThrewFrom("providers", "Agent not started")
  /\ FreshLocals
  /\ UNCHANGED <<feed, wait, handled, overlapping, replVars, agentVars, pc, procVars, configVars, created, signals>>

\* getAvailableProviders() up to its await
ProvidersBegin ==
  /\ pc = "idle"
  /\ ~NotStarted
  /\ outcome' = NoOutcome
  /\ sessionID' = NoSid
  /\ consumed' = <<>>
  /\ collectedEvents' = <<>>
  /\ tokenUsage' = NoUsage
  /\ sessionError' = NullStr
  /\ thrown' = NullStr
  /\ remote' = {"list"}
  /\ prompt' = NoPrompt
  /\ pc' = "listing"
  /\ UNCHANGED <<feed, wait, handled, overlapping, replVars, agentVars, procVars, configVars, created, signals>>

\* client.provider.list() resolves
ProvidersListed ==
  /\ pc = "listing"
  /\ \E data \in ListResponses : outcome' = ListResult(data)
  /\ pc' = "idle"
  /\ UNCHANGED <<feed, wait, handled, overlapping, replVars, agentVars, sessionID, pumpVars, procVars, configVars, traceVars>>

\* client.provider.list() rejects
ProvidersListFails ==
  /\ pc = "listing"
  /\ \E m \in ThrownMessages : outcome' = ThrewFrom("providers", m)
  /\ pc' = "idle"
  /\ UNCHANGED <<feed, wait, handled, overlapping, replVars, agentVars, sessionID, pumpVars, procVars, configVars, traceVars>>

(***************************************************************************)
(* query().                                                                *)
(***************************************************************************)
\* query() while this.client is null
QueryNotStarted ==
  /\ pc = "idle"
  /\ NotStarted
  /\ outcome' = Threw("Agent not started")
  /\ FreshLocals
  /\ UNCHANGED <<feed, wait, handled, overlapping, replVars, agentVars, pc, procVars, configVars, created, signals>>

\* query() up to its first await
QueryBegin ==
  /\ pc = "idle"
  /\ ~NotStarted
  /\ outcome' = NoOutcome
  /\ consumed' = <<>>
  /\ collectedEvents' = <<>>
  /\ tokenUsage' = NoUsage
  /\ sessionError' = NullStr
  /\ thrown' = NullStr
  /\ prompt' = NoPrompt
  /\ IF currentSessionId = NoSid
       THEN pc' = "creating" /\ sessionID' = NoSid /\ remote' = {"create"}
       ELSE pc' = "subscribing" /\ sessionID' = currentSessionId /\ remote' = {"subscribe"}
  /\ UNCHANGED <<feed, wait, handled, overlapping, replVars, agentVars, procVars, configVars, created, signals>>

\* the created session is used but not cached
CreateSessionUncached ==
  /\ pc = "creating"
  /\ \E id \in SessionIds : sessionID' = id
  /\ pc' = "subscribing"
  /\ remote' = remote \cup {"subscribe"}
  /\ created' = IF created < 2 THEN created + 1 ELSE created
  /\ UNCHANGED <<feed, wait, handled, overlapping, replVars, agentVars, pumpVars, outcome, procVars, configVars, prompt, signals>>

\* client.session.create() resolves with data
CreateSession ==
  /\ pc = "creating"
  /\ \E id \in SessionIds :
       /\ currentSessionId' = id
       /\ sessionID' = id
  /\ pc' = "subscribing"
  /\ remote' = remote \cup {"subscribe"}
  /\ created' = created + 1
  /\ UNCHANGED <<feed, wait, handled, overlapping, replVars, client, pumpVars, outcome, procVars, configVars, prompt, signals>>

\* the missing payload is not noticed
CreateSessionFailsProceeds ==
  /\ pc = "creating"
  /\ pc' = "subscribing"
  /\ remote' = remote \cup {"subscribe"}
  /\ UNCHANGED <<feed, wait, handled, overlapping, replVars, agentVars, sessionID, pumpVars, outcome, procVars, configVars,
                 prompt, created, signals>>

\* client.session.create() resolves without data
CreateSessionFails ==
  /\ pc = "creating"
  /\ outcome' = Threw("Failed to create session")
  /\ pc' = "idle"
  /\ UNCHANGED <<feed, wait, handled, overlapping, replVars, agentVars, sessionID, pumpVars, procVars, configVars, traceVars>>

\* client.session.create() rejects
CreateSessionRejects ==
  /\ pc = "creating"
  /\ \E m \in ThrownMessages : outcome' = Threw(m)
  /\ pc' = "idle"
  /\ UNCHANGED <<feed, wait, handled, overlapping, replVars, agentVars, sessionID, pumpVars, procVars, configVars, traceVars>>

\* the prompt names the default model whatever was set
PromptOfDefault(sid, modelString) ==
  [session |-> sid, providerID |-> ProviderIDOf(DefaultModel), modelID |-> ModelIDOf(DefaultModel),
   status |-> "pending"]

\* the prompt query() submits
PromptOf(sid, modelString) ==
  [session |-> sid, providerID |-> ProviderIDOf(modelString), modelID |-> ModelIDOf(modelString),
   status |-> "pending"]

\* client.event.subscribe() resolves; the prompt is fired and the pump starts
Subscribe ==
  /\ pc = "subscribing"
  /\ pc' = "pumping"
  /\ remote' = remote \cup {"prompt"}
  /\ prompt' = PromptOf(currentSessionId, currentModel)
  /\ UNCHANGED <<feed, wait, handled, overlapping, replVars, agentVars, sessionID, pumpVars, outcome, procVars, configVars,
                 created, signals>>

\* the prompt went out before the subscription was there
SubscribeFailsAfterPrompt ==
  /\ pc = "subscribing"
  /\ \E m \in ThrownMessages : outcome' = Threw(m)
  /\ pc' = "idle"
  /\ remote' = remote \cup {"prompt"}
  /\ prompt' = PromptOf(currentSessionId, currentModel)
  /\ UNCHANGED <<feed, wait, handled, overlapping, replVars, agentVars, sessionID, pumpVars, procVars,
                 configVars, created, signals>>

\* client.event.subscribe() rejects: the error leaves query()
SubscribeFails ==
  /\ pc = "subscribing"
  /\ \E m \in ThrownMessages : outcome' = Threw(m)
  /\ pc' = "idle"
  /\ UNCHANGED <<feed, wait, handled, overlapping, replVars, agentVars, sessionID, pumpVars, procVars, configVars, traceVars>>

\* events.stream delivers an event: the generator skips or yields it, the
\* loop body of query() handles a yielded event, and the generator returns
\* after a terminal idle
StreamEvent ==
  /\ pc = "pumping"
  /\ Len(consumed) < MaxEvents(feed)
  /\ \E event \in Repertoire(feed) :
       /\ consumed' = Append(consumed, event)
       /\ IF Discards(event, sessionID)
            THEN UNCHANGED <<collectedEvents, tokenUsage, sessionError, pc>>
            ELSE /\ collectedEvents' = Append(collectedEvents, event)
                 /\ tokenUsage' = NextTokenUsage(tokenUsage, event)
                 /\ sessionError' = NextSessionError(sessionError, event)
                 /\ pc' = IF IsTerminalIdle(event, sessionID) THEN "finishing" ELSE "pumping"
  /\ UNCHANGED <<feed, wait, handled, overlapping, replVars, agentVars, sessionID, thrown, outcome, procVars, configVars, traceVars>>

\* events.stream throws: the catch block of query() takes the message
StreamThrows ==
  /\ pc = "pumping"
  /\ \E m \in ThrownMessages :
       /\ thrown' = m
       /\ sessionError' = m
  /\ pc' = "finishing"
  /\ UNCHANGED <<feed, wait, handled, overlapping, replVars, agentVars, sessionID, consumed, collectedEvents, tokenUsage, outcome,
                 procVars, configVars, traceVars>>

\* events.stream ends (the connection is closed)
StreamEnds ==
  /\ pc = "pumping"
  /\ pc' = "finishing"
  /\ UNCHANGED <<feed, wait, handled, overlapping, replVars, agentVars, sessionID, pumpVars, outcome, procVars, configVars, traceVars>>

\* the failure drops the cached session
QueryThrowsResets ==
  /\ pc = "finishing"
  /\ Fails(sessionError)
  /\ outcome' = Threw(sessionError)
  /\ currentSessionId' = NoSid
  /\ pc' = "idle"
  /\ UNCHANGED <<feed, wait, handled, overlapping, replVars, client, sessionID, pumpVars, procVars, configVars, traceVars>>

\* throw new Error(sessionError)
QueryThrows ==
  /\ pc = "finishing"
  /\ Fails(sessionError)
  /\ outcome' = Threw(sessionError)
  /\ pc' = "idle"
  /\ UNCHANGED <<feed, wait, handled, overlapping, replVars, agentVars, sessionID, pumpVars, procVars, configVars, traceVars>>

\* return { response, tokenUsage }
QueryReturns ==
  /\ pc = "finishing"
  /\ ~Fails(sessionError)
  /\ outcome' = Returned(ResponseOf(collectedEvents), tokenUsage)
  /\ pc' = "idle"
  /\ UNCHANGED <<feed, wait, handled, overlapping, replVars, agentVars, sessionID, pumpVars, procVars, configVars, traceVars>>

\* the server accepts the prompt: the promise of session.prompt() resolves
PromptAccepted ==
  /\ prompt.status = "pending"
  /\ prompt' = [prompt EXCEPT !.status = "accepted"]
  /\ UNCHANGED <<feed, wait, handled, overlapping, replVars, agentVars, pc, sessionID, pumpVars, outcome,
                 procVars, configVars, remote, created, signals>>

\* the rejection reaches the query
PromptRejectedFailsQuery ==
  /\ prompt.status = "pending"
  /\ prompt' = [prompt EXCEPT !.status = "rejected"]
  /\ sessionError' = "prompt rejected"
  /\ pc' = IF pc = "pumping" THEN "finishing" ELSE pc
  /\ UNCHANGED <<feed, wait, handled, overlapping, replVars, agentVars, sessionID, consumed,
                 collectedEvents, tokenUsage, thrown, outcome, procVars, configVars, remote,
                 created, signals>>

\* the promise of session.prompt() rejects: .catch(() => {}) drops the error
PromptRejected ==
  /\ prompt.status = "pending"
  /\ prompt' = [prompt EXCEPT !.status = "rejected"]
  /\ UNCHANGED <<feed, wait, handled, overlapping, replVars, agentVars, pc, sessionID, pumpVars, outcome,
                 procVars, configVars, remote, created, signals>>

\* one query at a time against a started agent
Next ==
  \/ Start
  \/ QueryNotStarted
  \/ QueryBegin
  \/ CreateSession
  \/ CreateSessionFails
  \/ Subscribe
  \/ SubscribeFails
  \/ StreamEvent
  \/ StreamThrows
  \/ StreamEnds
  \/ QueryThrows
  \/ QueryReturns

\* every operation of the agent, called one at a time
NextLife ==
  \/ Next
  \/ StartExited
  \/ StartTimedOut
  \/ Stop
  \/ SetModel
  \/ SetThinkingMode
  \/ SetSessionId
  \/ SetRepositoryPath
  \/ ProvidersNotStarted
  \/ ProvidersBegin
  \/ ProvidersListed
  \/ ProvidersListFails
  \/ CreateSessionRejects

(***************************************************************************)
(* start() step by step: the child, its pipes, the two background readers  *)
(* and the polling loop. Time is counted in polls: the loop gives up when  *)
(* more than WaitBound polling intervals have passed.                      *)
(***************************************************************************)
TimeoutMessage == "Timeout waiting for server to start"
StartupMessage == "Server failed to start. Stderr: "
LockedMessage == "ReadableStream is locked"

\* Date.now() - startTime > 10000
TimedOut(w) == w.elapsed > WaitBound

\* proc.exitCode !== null
Exited(w) == children[w.child] = "dead"

\* killPort, Bun.spawn, the readers are attached and the loop is entered
WaitSpawn ==
  /\ pc = "idle"
  /\ wait.pos = "none"
  /\ Len(children) < MaxStarts(feed)
  /\ \E works \in BOOLEAN : children' = Append(KillPort(children, works), "hung")
  /\ wait' = [NoWait EXCEPT !.pos = "polling", !.child = Len(children) + 1]
  /\ pc' = "starting"
  /\ outcome' = NoOutcome
  /\ FreshLocals
  /\ UNCHANGED <<feed, handled, overlapping, replVars, agentVars, serverProc, configVars, created,
                 signals>>

\* the child binds the port and writes 'opencode server listening on <url>'
ChildAnnounces ==
  /\ wait.child # NoProc
  /\ children[wait.child] = "hung"
  /\ Listening(children) = {}
  /\ children' = [children EXCEPT ![wait.child] = "listening"]
  /\ wait' = [wait EXCEPT !.stdoutPending = TRUE]
  /\ UNCHANGED <<feed, handled, overlapping, replVars, agentVars, pc, sessionID, pumpVars, outcome,
                 serverProc, configVars, traceVars>>

\* the stdout reader gets the chunk and finds the URL in the buffer
StdoutRead ==
  /\ wait.stdoutPending
  /\ wait' = [wait EXCEPT !.stdoutPending = FALSE, !.serverUrl = TRUE]
  /\ UNCHANGED <<feed, handled, overlapping, replVars, agentVars, pc, sessionID, pumpVars, outcome,
                 procVars, configVars, traceVars>>

\* the child writes a chunk to stderr
ChildWritesStderr ==
  /\ wait.child # NoProc
  /\ children[wait.child] # "dead"
  /\ Len(wait.written) < MaxStderr
  /\ wait' = [wait EXCEPT !.written = Append(@, "E"), !.stderrPending = Append(@, "E")]
  /\ UNCHANGED <<feed, handled, overlapping, replVars, agentVars, pc, sessionID, pumpVars, outcome,
                 procVars, configVars, traceVars>>

\* the stderr drain reads a chunk and drops it
DrainStderr ==
  /\ wait.stderrPending # <<>>
  /\ wait' = [wait EXCEPT !.stderrPending = Tail(@)]
  /\ UNCHANGED <<feed, handled, overlapping, replVars, agentVars, pc, sessionID, pumpVars, outcome,
                 procVars, configVars, traceVars>>

\* the child exits
ChildExits ==
  /\ wait.child # NoProc
  /\ children[wait.child] # "dead"
  /\ children' = Kill(children, wait.child)
  /\ UNCHANGED <<feed, handled, overlapping, replVars, wait, agentVars, pc, sessionID, pumpVars,
                 outcome, serverProc, configVars, traceVars>>

\* the loop with the bound tested before the URL
PollTimeoutFirst ==
  /\ wait.pos = "polling"
  /\ IF TimedOut(wait)
       THEN /\ wait' = [wait EXCEPT !.pos = "over", !.reported = @ \cup {"timed-out"}]
            /\ outcome' = ThrewFrom("start", TimeoutMessage)
            /\ pc' = "idle"
            /\ UNCHANGED <<serverProc, client, created>>
       ELSE IF wait.serverUrl
       THEN /\ wait' = [wait EXCEPT !.pos = "over", !.reported = @ \cup {"ready"}]
            /\ serverProc' = wait.child
            /\ client' = TRUE
            /\ created' = 0
            /\ outcome' = Done("start")
            /\ pc' = "idle"
       ELSE IF Exited(wait)
       THEN /\ wait' = [wait EXCEPT !.pos = "reading"]
            /\ UNCHANGED <<serverProc, client, created, outcome, pc>>
       ELSE /\ wait' = [wait EXCEPT !.pos = "sleeping"]
            /\ UNCHANGED <<serverProc, client, created, outcome, pc>>
  /\ UNCHANGED <<feed, handled, overlapping, replVars, currentSessionId, sessionID, pumpVars,
                 children, configVars, remote, prompt, signals>>

\* one pass of the loop up to its next await: the URL is there and start()
\* goes on to keep the handle and set the client; or the bound is exceeded; or the child has
\* exited; or the loop sleeps
Poll ==
  /\ wait.pos = "polling"
  /\ IF wait.serverUrl
       THEN /\ wait' = [wait EXCEPT !.pos = "over", !.reported = @ \cup {"ready"}]
            /\ serverProc' = wait.child
            /\ client' = TRUE
            /\ created' = 0
            /\ outcome' = Done("start")
            /\ pc' = "idle"
       ELSE IF TimedOut(wait)
       THEN /\ wait' = [wait EXCEPT !.pos = "over", !.reported = @ \cup {"timed-out"}]
            /\ outcome' = ThrewFrom("start", TimeoutMessage)
            /\ pc' = "idle"
            /\ UNCHANGED <<serverProc, client, created>>
       ELSE IF Exited(wait)
       THEN /\ wait' = [wait EXCEPT !.pos = "reading"]
            /\ UNCHANGED <<serverProc, client, created, outcome, pc>>
       ELSE /\ wait' = [wait EXCEPT !.pos = "sleeping"]
            /\ UNCHANGED <<serverProc, client, created, outcome, pc>>
  /\ UNCHANGED <<feed, handled, overlapping, replVars, currentSessionId, sessionID, pumpVars,
                 children, configVars, remote, prompt, signals>>

\* the 100 ms timer fires, on time or late
Wake ==
  /\ wait.pos = "sleeping"
  /\ \E late \in {1, 2} :
       wait' = [wait EXCEPT !.pos = "polling",
                            !.elapsed = IF @ + late > WaitBound THEN WaitBound + 1 ELSE @ + late]
  /\ UNCHANGED <<feed, handled, overlapping, replVars, agentVars, pc, sessionID, pumpVars, outcome,
                 procVars, configVars, traceVars>>

\* new Response(proc.stderr).text() gives what the drain has left in the pipe
ReadStderr ==
  /\ wait.pos = "reading"
  /\ wait' = [wait EXCEPT !.pos = "over", !.reported = @ \cup {"exited"},
                          !.captured = wait.stderrPending, !.stderrPending = <<>>]
  /\ outcome' = ThrewFrom("start", StartupMessage)
  /\ pc' = "idle"
  /\ UNCHANGED <<feed, handled, overlapping, replVars, agentVars, sessionID, pumpVars, procVars,
                 configVars, traceVars>>

\* new Response(proc.stderr) throws: the stream is locked by the drain
ReadStderrLocked ==
  /\ wait.pos = "reading"
  /\ wait' = [wait EXCEPT !.pos = "over", !.reported = @ \cup {"exited"}]
  /\ outcome' = ThrewFrom("start", LockedMessage)
  /\ pc' = "idle"
  /\ UNCHANGED <<feed, handled, overlapping, replVars, agentVars, sessionID, pumpVars, procVars,
                 configVars, traceVars>>

NextWait ==
  \/ WaitSpawn
  \/ ChildAnnounces
  \/ StdoutRead
  \/ ChildWritesStderr
  \/ DrainStderr
  \/ ChildExits
  \/ Poll
  \/ Wake
  \/ ReadStderr
  \/ ReadStderrLocked

(***************************************************************************)
(* The line handler of the read-eval-print loop: it is asynchronous and    *)
(* readline delivers the next line while the handler of an earlier line is *)
(* suspended in query().                                                   *)
(***************************************************************************)
QueryLine == <<"h", "i">>

\* the handler is entered with the trimmed line, in the current state
Handles(input, list) ==
  handled' = [input |-> input, from |-> state, before |-> currentModel, offered |-> list,
              tick |-> 1 - handled.tick]

Overlapped(at, sid) == [pc |-> at, sessionID |-> sid, prompted |-> NoSid]

\* the call in flight is suspended at one of its awaits
Suspended == pc \in {"creating", "subscribing", "pumping"}

RemoveAt(seq, i) == [k \in 1..(Len(seq) - 1) |-> IF k < i THEN seq[k] ELSE seq[k + 1]]

\* a line that is a query arrives while a query is in flight: query() runs
\* up to its first await
LineQuery ==
  /\ state = "normal"
  /\ Suspended
  /\ client
  /\ Len(overlapping) < MaxOverlap
  /\ overlapping' = Append(overlapping,
                           IF currentSessionId = NoSid
                             THEN Overlapped("creating", NoSid)
                             ELSE Overlapped("subscribing", currentSessionId))
  /\ UNCHANGED <<feed, wait, replVars, agentVars, pc, sessionID, pumpVars, outcome, procVars, configVars,
                 traceVars>>
  /\ Handles(QueryLine, <<>>)

\* session.create() of an overlapping call resolves with data
OverlapCreates ==
  /\ \E i \in DOMAIN overlapping, id \in SessionIds :
       /\ overlapping[i].pc = "creating"
       /\ currentSessionId' = id
       /\ overlapping' = [overlapping EXCEPT ![i] = Overlapped("subscribing", id)]
  /\ created' = created + 1
  /\ UNCHANGED <<feed, wait, handled, replVars, client, pc, sessionID, pumpVars, outcome, procVars, configVars,
                 remote, prompt, signals>>

\* session.create() of an overlapping call fails
OverlapCreateFails ==
  /\ \E i \in DOMAIN overlapping :
       /\ overlapping[i].pc = "creating"
       /\ overlapping' = RemoveAt(overlapping, i)
  /\ UNCHANGED <<feed, wait, handled, replVars, agentVars, pc, sessionID, pumpVars, outcome, procVars, configVars,
                 traceVars>>

\* event.subscribe() of an overlapping call resolves; its prompt is fired
OverlapSubscribes ==
  /\ \E i \in DOMAIN overlapping :
       /\ overlapping[i].pc = "subscribing"
       /\ overlapping' = [overlapping EXCEPT ![i].pc = "pumping",
                                            ![i].prompted = currentSessionId]
  /\ UNCHANGED <<feed, wait, handled, replVars, agentVars, pc, sessionID, pumpVars, outcome, procVars, configVars,
                 traceVars>>

\* event.subscribe() of an overlapping call rejects
OverlapSubscribeFails ==
  /\ \E i \in DOMAIN overlapping :
       /\ overlapping[i].pc = "subscribing"
       /\ overlapping' = RemoveAt(overlapping, i)
  /\ UNCHANGED <<feed, wait, handled, replVars, agentVars, pc, sessionID, pumpVars, outcome, procVars, configVars,
                 traceVars>>

\* the pump of an overlapping call ends and the call returns or throws
OverlapEnds ==
  /\ \E i \in DOMAIN overlapping :
       /\ overlapping[i].pc = "pumping"
       /\ overlapping' = RemoveAt(overlapping, i)
  /\ UNCHANGED <<feed, wait, handled, replVars, agentVars, pc, sessionID, pumpVars, outcome, procVars, configVars,
                 traceVars>>

\* the agent driven by the line handler
NextRepl ==
  \/ Next
  \/ LineQuery
  \/ OverlapCreates
  \/ OverlapCreateFails
  \/ OverlapSubscribes
  \/ OverlapSubscribeFails
  \/ OverlapEnds

(***************************************************************************)
(* The selection dialogue of the line handler.                             *)
(***************************************************************************)
Back == <<"b", "a", "c", "k">>
BackUpper == <<"B", "a", "c", "k">>
Zero == <<"0">>
One == <<"1">>
SpaceTwo == <<" ", "2">>
Nine == <<"9">>
ShortKey == <<"s", "k", "-", "1">>
ApiKey == <<"s", "k", "-", "1", "2", "3", "4", "5", "6", "7", "8">>

\* the lines typed during a selection
OneX == <<"1", "x">>
SlashModel == <<"/", "m", "o", "d", "e", "l">>
Lines == {Back, BackUpper, Zero, One, SpaceTwo, Nine, OneX, ShortKey, ApiKey}

Digits == <<"0", "1", "2", "3", "4", "5", "6", "7", "8", "9">>
IsDigit(c) == \E d \in 1..10 : Digits[d] = c
DigitValue(c) == (CHOOSE d \in 1..10 : Digits[d] = c) - 1
NaN == 0 - 1000

\* the value of the leading digits, folded from the left
RECURSIVE ParseDigits(_, _)
ParseDigits(s, acc) ==
  IF s # <<>> /\ IsDigit(Head(s)) THEN ParseDigits(Tail(s), acc * 10 + DigitValue(Head(s)))
  ELSE acc

\* parseInt(input)
ParseInt(s) == IF s # <<>> /\ IsDigit(Head(s)) THEN ParseDigits(s, 0) ELSE NaN

\* parseInt(input) - 1
IndexOf(s) == IF ParseInt(s) = NaN THEN NaN ELSE ParseInt(s) - 1

\* isNaN(index) || index < 0 || index >= list.length
InvalidIndex(index, list) == index = NaN \/ index < 0 \/ index >= Len(list)

ToLowerChar(c) ==
  CASE c = "B" -> "b"
    [] c = "A" -> "a"
    [] c = "C" -> "c"
    [] c = "K" -> "k"
    [] OTHER -> c

\* String.prototype.toLowerCase
ToLowerCase(s) == [i \in 1..Len(s) |-> ToLowerChar(s[i])]

\* input.toLowerCase() === "back" || input === "0"
IsBackCommand(input) == ToLowerCase(input) = Back \/ input = Zero

\* no provider is ever asked for a key
NeedsKeyNever(id, environment) == FALSE

\* the provider needs a key and has none
NeedsKeyNow(id, environment) == requiresApiKey(id) /\ ~hasApiKey(id, environment)

\* the models of the provider are listed, or there are none
ShowModels(id) ==
  /\ filteredModels' = filterModels(ModelsOf(id))
  /\ state' = IF filterModels(ModelsOf(id)) = <<>> THEN "normal" ELSE "selecting_model"

\* 'back' or '0' cancels the whole selection from every state
LineBackCancels ==
  /\ client
  /\ state # "normal"
  /\ \E line \in Lines :
       /\ IsBackCommand(Trim(line))
       /\ Handles(Trim(line), <<>>)
       /\ state' = "normal"
  /\ UNCHANGED <<feed, wait, overlapping, agentVars, pc, sessionID, pumpVars, outcome, procVars,
                 configVars, traceVars, availableProviders, selectedProvider,
                 filteredModels, env, fetching>>

\* 'back' or '0' in a selection state
LineBack ==
  /\ client
  /\ state # "normal"
  /\ \E line \in Lines :
       /\ IsBackCommand(Trim(line))
       /\ Handles(Trim(line), <<>>)
       /\ state' = IF state = "selecting_model" THEN "selecting_provider" ELSE "normal"
  /\ UNCHANGED <<feed, wait, overlapping, agentVars, pc, sessionID, pumpVars, outcome, procVars,
                 configVars, traceVars, availableProviders, selectedProvider,
                 filteredModels, env, fetching>>

\* a line in state selecting_provider
LineSelectProvider ==
  /\ client
  /\ state = "selecting_provider"
  /\ \E line \in Lines :
       LET input == Trim(line)
           index == IndexOf(input)
       IN /\ ~IsBackCommand(input)
          /\ Handles(input, availableProviders)
          /\ IF InvalidIndex(index, availableProviders)
               THEN UNCHANGED <<state, selectedProvider, filteredModels>>
               ELSE /\ selectedProvider' = availableProviders[index + 1]
                    /\ IF NeedsKeyNow(availableProviders[index + 1], env)
                         THEN state' = "entering_api_key" /\ UNCHANGED filteredModels
                         ELSE ShowModels(availableProviders[index + 1])
  /\ UNCHANGED <<feed, wait, overlapping, agentVars, pc, sessionID, pumpVars, outcome, procVars,
                 configVars, traceVars, availableProviders, env, fetching>>

\* a line in state entering_api_key
LineApiKey ==
  /\ client
  /\ state = "entering_api_key"
  /\ \E line \in Lines :
       LET input == Trim(line)
       IN /\ ~IsBackCommand(input)
          /\ Handles(input, <<>>)
          /\ IF Len(input) > 10
               THEN /\ env' = IF getApiKeyEnvVar(selectedProvider) # NoEnvVar
                                 THEN env \cup {getApiKeyEnvVar(selectedProvider)}
                                 ELSE env
                    /\ ShowModels(selectedProvider)
               ELSE UNCHANGED <<state, filteredModels, env>>
  /\ UNCHANGED <<feed, wait, overlapping, agentVars, pc, sessionID, pumpVars, outcome, procVars,
                 configVars, traceVars, availableProviders, selectedProvider, fetching>>

\* a line in state selecting_model
LineSelectModel ==
  /\ client
  /\ state = "selecting_model"
  /\ \E line \in Lines :
       LET input == Trim(line)
           index == IndexOf(input)
       IN /\ ~IsBackCommand(input)
          /\ Handles(input, filteredModels)
          /\ IF InvalidIndex(index, filteredModels)
               THEN UNCHANGED <<state, currentModel>>
               ELSE /\ currentModel' = FullModelId(selectedProvider, filteredModels[index + 1])
                    /\ state' = "normal"
  /\ UNCHANGED <<feed, wait, overlapping, agentVars, pc, sessionID, pumpVars, outcome, procVars,
                 currentMode, repositoryPath, traceVars, availableProviders,
                 selectedProvider, filteredModels, env, fetching>>

\* '/model' in state normal: the handler calls getAvailableModels() and is
\* suspended
LineModels ==
  /\ client
  /\ state = "normal"
  /\ fetching < MaxFetch
  /\ fetching' = fetching + 1
  /\ UNCHANGED <<feed, wait, overlapping, agentVars, pc, sessionID, pumpVars, outcome, procVars,
                 configVars, traceVars, state, availableProviders, selectedProvider,
                 filteredModels, env>>
  /\ Handles(SlashModel, <<>>)

\* getAvailableModels() resolves and the handler goes on
ModelsListed ==
  /\ fetching > 0
  /\ fetching' = fetching - 1
  /\ \E data \in ListResponses :
       /\ availableProviders' = ListResult(data).providers
       /\ state' = IF ListResult(data).providers = <<>> THEN state ELSE "selecting_provider"
  /\ UNCHANGED <<feed, wait, handled, overlapping, agentVars, pc, sessionID, pumpVars, outcome, procVars,
                 configVars, traceVars, selectedProvider, filteredModels, env>>

\* getAvailableModels() rejects: the handler reports it
ModelsListFails ==
  /\ fetching > 0
  /\ fetching' = fetching - 1
  /\ UNCHANGED <<feed, wait, handled, overlapping, agentVars, pc, sessionID, pumpVars, outcome, procVars,
                 configVars, traceVars, state, availableProviders, selectedProvider,
                 filteredModels, env>>

\* main(): the agent is started, then lines are handled
NextSelect ==
  \/ Start
  \/ LineModels
  \/ ModelsListed
  \/ ModelsListFails
  \/ LineBack
  \/ LineSelectProvider
  \/ LineApiKey
  \/ LineSelectModel

\* queries with the background promise of the prompt
NextPrompt ==
  \/ Next
  \/ PromptAccepted
  \/ PromptRejected

Spec == Init /\ [][Next]_vars
SpecWait == InitWait /\ [][NextWait]_vars

\* the loop of start() runs: timers fire and reads of a closed pipe end
FairWait ==
  /\ InitWait
  /\ [][NextWait]_vars
  /\ WF_vars(Poll)
  /\ WF_vars(Wake)
  /\ WF_vars(ReadStderr \/ ReadStderrLocked)
SpecPrompt == InitLife /\ [][NextPrompt]_vars
SpecSelect == InitSelect /\ [][NextSelect]_vars
SpecRepl == InitLife /\ [][NextRepl]_vars
SpecParts == InitParts /\ [][Next]_vars
SpecMsgs == InitMsgs /\ [][Next]_vars
SpecLife == InitLife /\ [][NextLife]_vars

\* the steps of query() that do not wait for the server run to completion
FairSpec == InitLive /\ [][Next]_vars /\ WF_vars(QueryThrows) /\ WF_vars(QueryReturns)

TypeOK ==
  /\ feed \in Feeds
  /\ client \in BOOLEAN
  /\ currentSessionId \in Sids
  /\ pc \in {"idle", "creating", "subscribing", "pumping", "finishing", "listing", "starting"}
  /\ sessionID \in Sids
  /\ Len(consumed) <= MaxEvents(feed)
  /\ Len(collectedEvents) <= Len(consumed)
  /\ outcome.kind \in {"none", "result", "error", "done"}
  /\ serverProc \in 0..Len(children)
  /\ Len(children) <= MaxStarts(feed)
  /\ currentModel \in Models \cup {FullModelId(id, m) : id \in ProviderIds, m \in ModelIds}
  /\ currentMode \in ThinkingModes
  /\ repositoryPath \in RepositoryPaths \cup {NoPath}
  /\ remote \subseteq {"create", "subscribe", "prompt", "list"}
  /\ created \in 0..(2 + MaxOverlap)
  /\ signals \in 0..1
  /\ Len(overlapping) <= MaxOverlap
  /\ state \in {"normal", "selecting_provider", "selecting_model", "entering_api_key"}
  /\ env \subseteq EnvVars
  /\ fetching \in 0..MaxFetch
  /\ wait.pos \in {"none", "polling", "sleeping", "reading", "over"}
  /\ wait.elapsed \in 0..(WaitBound + 1)
  /\ Len(wait.written) <= MaxStderr

(***************************************************************************)
(* Properties.                                                             *)
(***************************************************************************)
Last(seq) == seq[Len(seq)]
Remove(seq, i) == SubSeq(seq, 1, i - 1) \o SubSeq(seq, i + 1, Len(seq))
Finished == pc = "idle" /\ outcome.kind # "none"

\* C1: every event the filter yields has no sessionID in its properties or
\* has the sessionID of the target session; an event of another session is
\* never yielded.
C1_YieldsOnlyTargetSession ==
  \A i \in 1..Len(collectedEvents) :
    LET e == collectedEvents[i]
    IN \/ ~e.props.present
       \/ e.props.sid = NoSid
       \/ e.props.sid = sessionID

\* an event of another session was pulled and dropped, and events with the
\* target's sessionID and without a sessionID were yielded
C1_Witness ==
  /\ \E i \in 1..Len(consumed) : consumed[i].props.sid \in SessionIds \ {sessionID}
  /\ \E i \in 1..Len(collectedEvents) : collectedEvents[i].props.sid = sessionID
  /\ \E i \in 1..Len(collectedEvents) : collectedEvents[i].props.sid = NoSid

IsIdleOfTarget(e) == e.type = "session.idle" /\ e.props.present /\ e.props.sid = sessionID

\* C2: once the source has delivered a session.idle of the target session,
\* that event is the last one pulled from the source and the last one
\* yielded to the pump, and the pump is over.
C2_EndsAtFirstTargetIdle ==
  \A i \in 1..Len(consumed) :
    IsIdleOfTarget(consumed[i]) =>
      /\ i = Len(consumed)
      /\ collectedEvents # <<>>
      /\ Last(collectedEvents) = consumed[i]
      /\ pc \in {"finishing", "idle"}

\* a query that returned after events followed by the idle of its session
C2_Witness ==
  /\ Finished
  /\ outcome.kind = "result"
  /\ Len(consumed) >= 3
  /\ IsIdleOfTarget(Last(consumed))
  /\ \E i \in 1..Len(consumed) - 1 : consumed[i].type = "session.idle"

\* the statement of the assembler in terms of positions in the event list
IsAnswerPart(e) ==
  /\ e.type = "message.part.updated"
  /\ e.props.part.type = "text"
  /\ e.props.part.role # "user"

AnswerPositions(L) == {i \in 1..Len(L) : IsAnswerPart(L[i])}
AnswerIds(L) == {L[i].props.part.id : i \in AnswerPositions(L)}
PositionsOf(L, id) == {i \in AnswerPositions(L) : L[i].props.part.id = id}
FirstSeen(L, id) == CHOOSE i \in PositionsOf(L, id) : \A j \in PositionsOf(L, id) : i <= j
LastSeen(L, id) == CHOOSE i \in PositionsOf(L, id) : \A j \in PositionsOf(L, id) : j <= i

FirstSeenOrder(L) ==
  CHOOSE s \in [1..Cardinality(AnswerIds(L)) -> AnswerIds(L)] :
    \A j, k \in DOMAIN s : j < k => FirstSeen(L, s[j]) < FirstSeen(L, s[k])

RECURSIVE ConcatLatest(_, _)
ConcatLatest(L, ids) ==
  IF ids = <<>> THEN <<>>
  ELSE LET t == L[LastSeen(L, Head(ids))].props.part.text
       IN (IF t = UndefText THEN <<>> ELSE t) \o ConcatLatest(L, Tail(ids))

LeadingSpaces(s) == CHOOSE n \in 0..Len(s) :
  /\ \A i \in 1..n : s[i] \in Whitespace
  /\ n < Len(s) => s[n + 1] \notin Whitespace

TrailingSpaces(s) == CHOOSE n \in 0..Len(s) :
  /\ \A i \in (Len(s) - n + 1)..Len(s) : s[i] \in Whitespace
  /\ n < Len(s) => s[Len(s) - n] \notin Whitespace

Trimmed(s) ==
  IF \A i \in 1..Len(s) : s[i] \in Whitespace THEN <<>>
  ELSE SubSeq(s, LeadingSpaces(s) + 1, Len(s) - TrailingSpaces(s))

AssembledAnswer(L) == Trimmed(ConcatLatest(L, FirstSeenOrder(L)))

HelloWorldExample ==
  <<PartEvent(NoSid, TextPart("a", "assistant", Hel)),
    PartEvent(NoSid, TextPart("a", "assistant", Hello)),
    PartEvent(NoSid, TextPart("b", "assistant", SpWorld))>>

\* C3: the assembler returns the trimmed concatenation, over the distinct
\* ids of the qualifying parts in first-seen order, of the text of the last
\* qualifying event of each id; a:'Hel', a:'Hello', b:' world' give
\* 'Hello world'.
C3_AssemblesLatestTextInFirstSeenOrder ==
  /\ extractAnswerFromEvents(collectedEvents) = AssembledAnswer(collectedEvents)
  /\ collectedEvents = HelloWorldExample =>
       extractAnswerFromEvents(collectedEvents) = HelloWorld

\* a query that returned 'Hello world' from the three parts of the example
C3_Witness ==
  /\ Finished
  /\ collectedEvents = HelloWorldExample
  /\ outcome.response = HelloWorld

\* C4: assembling the event list followed by itself gives the same string
\* as assembling the list once.
C4_ReplayIdempotent ==
  extractAnswerFromEvents(collectedEvents \o collectedEvents)
    = extractAnswerFromEvents(collectedEvents)

\* a returned query whose list updates the same part twice with different
\* texts
C4_Witness ==
  /\ Finished
  /\ outcome.kind = "result"
  /\ outcome.response # Placeholder
  /\ \E i, j \in AnswerPositions(collectedEvents) :
       /\ i < j
       /\ collectedEvents[i].props.part.id = collectedEvents[j].props.part.id
       /\ collectedEvents[i].props.part.text # collectedEvents[j].props.part.text

IsUserPart(e) == e.type = "message.part.updated" /\ e.props.part.role = "user"

\* C5: removing a part event of role user from any position of the event
\* list (equivalently, inserting it there) changes neither the part ids
\* the assembler considers nor the assembled string.
C5_UserPartsNeverContribute ==
  \A i \in 1..Len(collectedEvents) :
    IsUserPart(collectedEvents[i]) =>
      /\ AsmFold(Remove(collectedEvents, i)).partIds = AsmFold(collectedEvents).partIds
      /\ extractAnswerFromEvents(Remove(collectedEvents, i))
           = extractAnswerFromEvents(collectedEvents)

\* a returned query whose list has a user part between two assistant parts
C5_Witness ==
  /\ Finished
  /\ outcome.response # Placeholder
  /\ Len(collectedEvents) = 3
  /\ IsAnswerPart(collectedEvents[1])
  /\ IsUserPart(collectedEvents[2])
  /\ collectedEvents[2].props.part.text \in Texts
  /\ IsAnswerPart(collectedEvents[3])

\* the message.updated events that report token counts of the assistant
IsUsageReport(e) ==
  /\ e.type = "message.updated"
  /\ e.props.info.role = "assistant"
  /\ e.props.info.tokens.present

UsageReports(L) == {i \in 1..Len(L) : IsUsageReport(L[i])}
LastUsageReport(L) == L[CHOOSE i \in UsageReports(L) : \A j \in UsageReports(L) : j <= i]

\* C6: the token usage a query returns is undefined when the stream had no
\* assistant message.updated event with token counts, and otherwise comes
\* from the last such event; when that event supplies an explicit total,
\* totalTokens is that total.
C6_UsageFromLastReportExplicitTotalWins ==
  (Finished /\ outcome.kind = "result") =>
    IF UsageReports(collectedEvents) = {}
      THEN outcome.tokenUsage = NoUsage
      ELSE LET tokens == LastUsageReport(collectedEvents).props.info.tokens
           IN /\ outcome.tokenUsage # NoUsage
              /\ tokens.input > 0 => outcome.tokenUsage.inputTokens = tokens.input
              /\ tokens.output > 0 => outcome.tokenUsage.outputTokens = tokens.output
              /\ tokens.total # NoNum => outcome.tokenUsage.totalTokens = tokens.total

\* C7: when the last token record has no explicit total, totalTokens of the
\* returned usage is inputTokens + outputTokens.
C7_DerivedTotalIsSum ==
  (/\ Finished
   /\ outcome.kind = "result"
   /\ UsageReports(collectedEvents) # {}
   /\ LastUsageReport(collectedEvents).props.info.tokens.total = NoNum) =>
    outcome.tokenUsage.totalTokens
      = outcome.tokenUsage.inputTokens + outcome.tokenUsage.outputTokens

IsErrorOfTarget(e) == e.type = "session.error" /\ e.props.present /\ e.props.sid = sessionID

\* structured message, then error name, then the generic text
MessageByFallback(e) ==
  IF e.props.error.message \notin {UndefStr, ""} THEN e.props.error.message
  ELSE IF e.props.error.name \notin {UndefStr, ""} THEN e.props.error.name
  ELSE "Unknown error occurred"

\* C8: a query whose stream had a session.error event of the active session
\* fails, with the message of such an event chosen by the fallback chain.
C8_SessionErrorFailsQuery ==
  (Finished /\ \E i \in 1..Len(collectedEvents) : IsErrorOfTarget(collectedEvents[i])) =>
    /\ outcome.kind = "error"
    /\ \E i \in 1..Len(collectedEvents) :
         /\ IsErrorOfTarget(collectedEvents[i])
         /\ outcome.message = MessageByFallback(collectedEvents[i])

TerminalEventDelivered ==
  /\ pc \in {"pumping", "finishing"}
  /\ \E i \in 1..Len(collectedEvents) :
       IsIdleOfTarget(collectedEvents[i]) \/ IsErrorOfTarget(collectedEvents[i])

IdleDelivered ==
  /\ pc \in {"pumping", "finishing"}
  /\ \E i \in 1..Len(collectedEvents) : IsIdleOfTarget(collectedEvents[i])

\* C9 as stated: once a session.idle or a session.error event of the active
\* session has been delivered, the pump no longer waits for the server to
\* send another event, so that the query completes.
C9_PumpOverAfterIdleOrError == TerminalEventDelivered => pc = "finishing"

\* C9 as amended: once a session.idle event of the active session has been
\* delivered, the pump is over and the query eventually completes (returns
\* or fails).
C9_IdleLeadsToCompletion ==
  /\ [](IdleDelivered => pc = "finishing")
  /\ IdleDelivered ~> Finished

\* a query that failed after a session.error followed by the idle of its
\* session
C9_Witness ==
  /\ Finished
  /\ outcome.kind = "error"
  /\ Len(collectedEvents) >= 2
  /\ IsErrorOfTarget(collectedEvents[1])
  /\ IsIdleOfTarget(Last(collectedEvents))

\* C10: a query whose event stream threw fails with the message of the
\* thrown error and never returns a result.
C10_TransportErrorFailsQuery ==
  (Finished /\ thrown # NullStr) => outcome = Threw(thrown)

(***************************************************************************)
(* Lifecycle, configuration and provider discovery.                        *)
(***************************************************************************)
\* the call in flight (or the last call) has submitted its prompt
Submitted == "prompt" \in remote

\* neither undefined nor the empty string
Defined(text) == text # UndefText /\ text # <<>>

\* C11: a model string is validated before it is used: query() never submits
\* a prompt whose providerID or modelID is undefined or empty.
C11_PromptNamesProviderAndModel ==
  Submitted => Defined(prompt.providerID) /\ Defined(prompt.modelID)

\* a call of query() or getAvailableProviders() made while no client is set
CallsWithoutClient ==
  /\ pc = "idle"
  /\ ~client
  /\ outcome' # outcome
  /\ outcome'.op \in {"query", "providers"}

\* C12: query() and getAvailableProviders() called while no client is set
\* fail with 'Agent not started', perform no remote call and leave the
\* agent's state unchanged; without a client no call is ever waiting for the
\* server.
C12_NotStartedFailsWithoutEffect ==
  /\ [](~client => pc = "idle" /\ (outcome.op \in {"query", "providers"} => remote = {}))
  /\ [][CallsWithoutClient =>
          /\ outcome'.kind = "error"
          /\ outcome'.message = "Agent not started"
          /\ remote' = {}
          /\ pc' = "idle"
          /\ UNCHANGED <<agentVars, procVars, configVars>>]_vars

\* getAvailableProviders() failed on an agent that was started and stopped
C12_Witness ==
  /\ ~client
  /\ outcome = ThrewFrom("providers", "Agent not started")
  /\ serverProc = NoProc
  /\ Len(children) > 0

\* query() passes its not-started guard
QueryStarts == pc = "idle" /\ pc' \in {"creating", "subscribing"}

\* C13: between a successful start() and the next stop(), over any sequence
\* of query() calls, a session is created at most once, and only when no
\* session id is cached; every query filters its events and submits its
\* prompt with the cached session id.
C13_SessionCreatedOnce ==
  /\ [](created <= 1)
  /\ [](pc \in {"subscribing", "pumping", "finishing"} =>
          sessionID # NoSid /\ sessionID = currentSessionId)
  /\ [](Submitted => prompt.session = sessionID)
  /\ [][QueryStarts /\ currentSessionId # NoSid =>
          /\ pc' = "subscribing"
          /\ sessionID' = currentSessionId
          /\ UNCHANGED <<currentSessionId, created>>]_vars
  /\ [][created' = created + 1 => currentSessionId = NoSid /\ currentSessionId' # NoSid]_vars

\* a later query pumps the events of the session an earlier query created
C13_Witness ==
  /\ pc = "pumping"
  /\ created = 1
  /\ remote = {"subscribe", "prompt"}
  /\ prompt.session = currentSessionId
  /\ sessionID = currentSessionId

\* session.create() has answered and no session id is cached
CreationFailed == pc = "creating" /\ pc' # "creating" /\ currentSessionId' = NoSid

\* the last call was a query that failed while creating its session
FailedCreating ==
  /\ pc = "idle"
  /\ outcome.op = "query"
  /\ outcome.kind = "error"
  /\ remote = {"create"}

\* C14: when session creation fails (no data, or the call rejects), the
\* query fails without subscribing to events and without submitting a
\* prompt, the session cache stays empty, the client stays set, and the next
\* query attempts creation again.
C14_CreationFailureFailsQuery ==
  /\ [][CreationFailed =>
          /\ pc' = "idle"
          /\ outcome'.op = "query"
          /\ outcome'.kind = "error"
          /\ remote' = {"create"}
          /\ prompt' = NoPrompt
          /\ client'
          /\ UNCHANGED <<procVars, configVars, created>>]_vars
  /\ [][FailedCreating /\ currentSessionId = NoSid /\ QueryStarts =>
          pc' = "creating" /\ remote' = {"create"}]_vars

\* a query failed because session.create() returned no data
C14_Witness ==
  /\ FailedCreating
  /\ outcome = Threw("Failed to create session")
  /\ client
  /\ currentSessionId = NoSid
  /\ prompt = NoPrompt

\* a query that had its session fails
FailsAfterSession ==
  /\ pc \in {"subscribing", "pumping", "finishing"}
  /\ pc' = "idle"
  /\ outcome'.kind = "error"

\* the last call was a query that failed after it had its session
FailedAfterSession ==
  /\ pc = "idle"
  /\ outcome.op = "query"
  /\ outcome.kind = "error"
  /\ "subscribe" \in remote

\* C15: a query that fails with a session error reported by the server or
\* with a transport error leaves serverProc, client and the cached session
\* id unchanged, and the next query proceeds on the same session.
C15_FailedQueryKeepsSession ==
  /\ [][FailsAfterSession =>
          /\ outcome' = Threw(outcome'.message)
          /\ client'
          /\ currentSessionId' = sessionID
          /\ UNCHANGED <<client, currentSessionId, procVars, configVars>>]_vars
  /\ [][FailedAfterSession /\ currentSessionId = sessionID /\ QueryStarts =>
          /\ pc' = "subscribing"
          /\ sessionID' = sessionID
          /\ remote' = {"subscribe"}
          /\ UNCHANGED <<client, currentSessionId, procVars, created>>]_vars

\* a query failed with the error its session reported; the server process,
\* the client and the session are still there
C15_Witness ==
  /\ FailedAfterSession
  /\ thrown = NullStr
  /\ \E i \in 1..Len(collectedEvents) : IsErrorOfTarget(collectedEvents[i])
  /\ client
  /\ serverProc # NoProc
  /\ currentSessionId = sessionID
  /\ currentSessionId # NoSid

\* the calls of query() that have begun and have not returned or thrown
InFlight == (IF pc \in {"creating", "subscribing", "pumping", "finishing"} THEN 1 ELSE 0) + Len(overlapping)

\* C16: at most one query() is in flight, for every interleaving of the
\* input lines handled by the asynchronous line handler.
C16_OneQueryInFlight == InFlight <= 1

\* C17: after start() has been called twice without a stop() in between, at
\* most one child server process is alive, and every child that is alive is
\* the one the agent holds the handle of.
C17_OneLiveChildWithHandle ==
  /\ Cardinality(Alive(children)) <= 1
  /\ Len(children) >= 2 => Alive(children) \subseteq {serverProc}

\* a call of stop() ends
Stops == outcome'.op = "stop"

\* C18: stop() clears the server process handle, the client and the cached
\* session id and leaves the repository path, the model and the thinking
\* mode unchanged; a query() after stop() fails with not-started, and the
\* first query after a later start() creates a fresh session.
C18_StopClearsHandleClientSession ==
  /\ [](outcome.op = "stop" =>
          /\ serverProc = NoProc
          /\ ~client
          /\ currentSessionId = NoSid
          /\ Listening(children) = {})
  /\ [][Stops => UNCHANGED configVars]_vars
  /\ [][outcome.op = "stop" /\ outcome'.op = "query" =>
          outcome' = Threw("Agent not started") /\ remote' = {}]_vars
  /\ [][outcome.op = "stop" /\ outcome' = Done("start") =>
          client' /\ currentSessionId' = NoSid /\ created' = 0]_vars
  /\ [][outcome = Done("start") /\ currentSessionId = NoSid /\ QueryStarts =>
          pc' = "creating" /\ remote' = {"create"}]_vars

\* the agent was configured, started and stopped
C18_Witness ==
  /\ outcome = Done("stop")
  /\ signals = 1
  /\ currentModel # DefaultModel
  /\ repositoryPath # NoPath

\* a call of stop() ends that began with no server process handle
StopsWithoutServer == Stops /\ serverProc = NoProc

C20_MissingPayloadFails ==
  /\ (outcome.op = "providers" /\ outcome.kind = "done") => outcome.data # NoData
  /\ pc \in {"subscribing", "pumping", "finishing"} => sessionID # NoSid

(***************************************************************************)
(* The selection dialogue.                                                 *)
(***************************************************************************)
\* the provider is outside the free allow-list and its credential variable
\* is unset or empty
PaidWithoutKey(id) == requiresApiKey(id) /\ getApiKeyEnvVar(id) \notin env

\* the line handler calls setModel
SelectsModel == state = "selecting_model" /\ currentModel' # currentModel

\* C21: no sequence of input lines reaches selecting_model for a provider
\* outside the free allow-list whose credential variable is unset, and
\* setModel is called with a model of such a provider only while its
\* variable is non-empty.
C21_PaidProviderNeedsKey ==
  /\ [](state = "selecting_model" => ~PaidWithoutKey(selectedProvider))
  /\ [][SelectsModel =>
          /\ ~PaidWithoutKey(selectedProvider)
          /\ ProviderIDOf(currentModel') = <<selectedProvider>>]_vars

\* a model of a paid provider was selected after its key was typed in
C21_Witness ==
  /\ state = "normal"
  /\ currentModel = FullModelId("google", "gemini-2.5-flash")
  /\ "GOOGLE_API_KEY" \in env

(***************************************************************************)
(* The response, the order of subscription and prompt, the filter.         *)
(***************************************************************************)
\* the last call was a query and it returned
ReturnedQuery == Finished /\ outcome.op = "query" /\ outcome.kind = "result"

\* C22: a query that returns never returns an empty response: when the
\* collected events have no qualifying text part, or their texts are only
\* whitespace, the response is '(No response received)'; otherwise it is
\* exactly the assembled answer.
C22_EmptyAnswerGivesPlaceholder ==
  ReturnedQuery =>
    /\ outcome.response # <<>>
    /\ AnswerPositions(collectedEvents) = {} => outcome.response = Placeholder
    /\ outcome.response = IF AssembledAnswer(collectedEvents) = <<>>
                            THEN Placeholder
                            ELSE AssembledAnswer(collectedEvents)

\* a query whose only answer part was blank returned the placeholder
C22_Witness ==
  /\ ReturnedQuery
  /\ outcome.response = Placeholder
  /\ \E i \in AnswerPositions(collectedEvents) : collectedEvents[i].props.part.text = Blank

\* C23: within every query(), the prompt is submitted only after the event
\* subscription of the session has been opened; a query whose subscription
\* fails submits no prompt.
C23_SubscribesBeforePrompt ==
  /\ [](Submitted => "subscribe" \in remote /\ pc \in {"pumping", "finishing", "idle"})
  /\ [](\A i \in DOMAIN overlapping :
          overlapping[i].prompted # NoSid => overlapping[i].pc = "pumping")
  /\ [][~Submitted /\ Submitted' => pc = "subscribing" /\ pc' = "pumping"]_vars
  /\ [][pc = "subscribing" /\ pc' = "idle" => ~Submitted' /\ prompt' = NoPrompt]_vars

\* a query created its session, subscribed and then submitted its prompt
C23_Witness ==
  /\ pc = "pumping"
  /\ remote = {"create", "subscribe", "prompt"}
  /\ prompt.session = sessionID
  /\ consumed = <<>>

\* the promise of the prompt is settled
PromptSettles == prompt.status = "pending" /\ prompt'.status \in {"accepted", "rejected"}

\* C24: a failure of the prompt submission is swallowed where the prompt is
\* submitted: by itself it changes neither the position nor the locals nor
\* the outcome of query(), and what a query that submitted its prompt
\* returns or throws is a function of what its event subscription delivered
\* or threw.
C24_PromptFailureSwallowed ==
  /\ [][PromptSettles =>
          UNCHANGED <<agentVars, pc, sessionID, pumpVars, outcome, procVars, remote>>]_vars
  /\ [](Finished /\ Submitted =>
          outcome = IF Fails(sessionError)
                      THEN Threw(sessionError)
                      ELSE Returned(ResponseOf(collectedEvents), tokenUsage))
  /\ [](Finished /\ Submitted /\ sessionError # NullStr =>
          \/ thrown = sessionError
          \/ \E i \in 1..Len(collectedEvents) : IsErrorOfTarget(collectedEvents[i]))

\* a query returned a result although its prompt had been rejected
C24_Witness ==
  /\ ReturnedQuery
  /\ prompt.status = "rejected"
  /\ sessionError = NullStr

\* the loop over the filtered events ended without an error being thrown
PumpEndedNormally == pc = "finishing" /\ thrown = NullStr

\* C25: the filtered event sequence ends normally only with a session.idle
\* event of the target session: a pump that ended without a thrown error
\* has that event as its last event.
C25_EndsOnlyOnTargetIdle ==
  PumpEndedNormally =>
    collectedEvents # <<>> /\ IsIdleOfTarget(Last(collectedEvents))

\* the event has no sessionID, or the sessionID of the target
Attributable(e) == ~e.props.present \/ e.props.sid = NoSid \/ e.props.sid = sessionID

\* the events of the list that pass, in the order of the list
RECURSIVE Passing(_)
Passing(L) ==
  IF L = <<>> THEN <<>>
  ELSE (IF Attributable(Head(L)) THEN <<Head(L)>> ELSE <<>>) \o Passing(Tail(L))

\* C26: the filter is complete and order-preserving: the events yielded to
\* the pump are exactly the source events without a sessionID or with the
\* sessionID of the target, each once and in the order of the source, up
\* to and including the terminating session.idle.
C26_FilterCompleteInOrder ==
  /\ collectedEvents = Passing(consumed)
  /\ \A i \in 1..(Len(consumed) - 1) : ~IsIdleOfTarget(consumed[i])

\* an event of another session was dropped between two yielded events, the
\* first of them without a sessionID
C26_Witness ==
  /\ Len(consumed) = 3
  /\ ~Attributable(consumed[2])
  /\ consumed[1].props.sid = NoSid
  /\ consumed[3].props.sid = sessionID
  /\ collectedEvents = <<consumed[1], consumed[3]>>

\* the list with a copy of its i-th event delivered again after position j
Redelivered(L, i, j) == SubSeq(L, 1, j) \o <<L[i]>> \o SubSeq(L, j + 1, Len(L))

\* C27: delivering again, at any later position, a copy of a
\* message.part.updated event that is already in the list does not change
\* the assembled answer.
C27_LateDuplicateChangesNothing ==
  \A i \in 1..Len(collectedEvents) : \A j \in i..Len(collectedEvents) :
    collectedEvents[i].type = "message.part.updated" =>
      extractAnswerFromEvents(Redelivered(collectedEvents, i, j))
        = extractAnswerFromEvents(collectedEvents)

(***************************************************************************)
(* The setters.                                                            *)
(***************************************************************************)
\* C28: setModel changes only the model string and setThinkingMode only the
\* thinking mode (client, server process, cached session id and the other
\* configuration stay as they are), and the prompt of every query carries
\* the provider and model ids parsed from the model string set last.
C28_SettersOnlySetTheirField ==
  /\ [][outcome'.op = "setModel" =>
          UNCHANGED <<agentVars, procVars, currentMode, repositoryPath, pc, created>>]_vars
  /\ [][outcome'.op = "setThinkingMode" =>
          UNCHANGED <<agentVars, procVars, currentModel, repositoryPath, pc, created>>]_vars
  /\ [][~Submitted /\ Submitted' =>
          /\ prompt'.providerID = ProviderIDOf(currentModel)
          /\ prompt'.modelID = ModelIDOf(currentModel)]_vars
  /\ [](Submitted /\ pc \in {"pumping", "finishing"} =>
          /\ prompt.providerID = ProviderIDOf(currentModel)
          /\ prompt.modelID = ModelIDOf(currentModel))

\* after a first query on the default model, the model and the mode were
\* set and the next query prompts the new model on the same session
C28_Witness ==
  /\ pc = "pumping"
  /\ remote = {"subscribe", "prompt"}
  /\ currentModel = <<"q", "/", "n">>
  /\ currentMode = "high"
  /\ prompt.providerID = <<"q">>
  /\ prompt.modelID = <<"n">>
  /\ created = 1


\* the wait of start() is under way
Waiting == wait.pos \in {"polling", "sleeping", "reading"}

\* the wait of start() is over and start() has returned or thrown
WaitOver == wait.pos = "over"

\* C29: the readiness wait ends, and by exactly one of ready, exited and
\* timed-out: it never reports two outcomes, it times out only when the URL
\* was not seen, it succeeds only with the URL seen and start() then returns,
\* and an exit or a timeout makes start() throw
C29_WaitEndsByOneOutcome ==
  /\ [](Cardinality(wait.reported) <= 1)
  /\ [](WaitOver <=> Cardinality(wait.reported) = 1)
  /\ [][/\ "timed-out" \in wait.reported' \ wait.reported => ~wait.serverUrl
        /\ "ready" \in wait.reported' \ wait.reported => wait.serverUrl]_vars
  /\ [](WaitOver => (outcome.kind = "done" <=> wait.reported = {"ready"}))
  /\ (Waiting ~> WaitOver)

\* C29 witness: the URL was read after the bound had passed and before the
\* next pass of the loop, and the wait ended ready
C29_Witness ==
  /\ WaitOver
  /\ wait.reported = {"ready"}
  /\ TimedOut(wait)
  /\ outcome = Done("start")

\* C30: when the child exits before readiness, start() throws the startup
\* error and its message carries everything the child wrote to stderr,
\* whatever the drain did in between
C30_StartupErrorCarriesStderr ==
  (WaitOver /\ "exited" \in wait.reported)
    => /\ outcome = ThrewFrom("start", StartupMessage)
       /\ wait.captured = wait.written

\* getAvailableProviders() has returned the listing of a server list
ProvidersReturned == outcome.op = "providers" /\ outcome.kind = "done" /\ outcome.data # NoData

\* how often id occurs in the list
Occurrences(list, id) == Cardinality({i \in 1..Len(list) : list[i] = id})

\* C31: provider discovery returns exactly the providers of the server's
\* list whose id is in the allow-list, each as often as the server listed
\* it, in the order of the allow-list, and none from outside the allow-list
C31_DiscoveryFiltersAndOrdersByAllowList ==
  ProvidersReturned =>
    /\ \A i \in 1..Len(outcome.providers) : IsAllowed(outcome.providers[i])
    /\ \A i \in 1..Len(outcome.data) :
         Occurrences(outcome.providers, outcome.data[i])
           = IF IsAllowed(outcome.data[i]) THEN Occurrences(outcome.data, outcome.data[i]) ELSE 0
    /\ \A i, j \in 1..Len(outcome.providers) :
         i < j => IndexOfAllowed(outcome.providers[i]) <= IndexOfAllowed(outcome.providers[j])

\* C31 witness: a listing that held a provider outside the allow-list and
\* allowed providers out of order has been returned
C31_Witness ==
  /\ ProvidersReturned
  /\ \E i \in 1..Len(outcome.data) : ~IsAllowed(outcome.data[i])
  /\ Len(outcome.providers) >= 2
  /\ outcome.providers # FilterAllowed(outcome.data)

\* C32: within one query() the session the event filter targets is the
\* session the prompt is submitted to, whatever ran during its awaits
C32_PromptGoesToFilteredSession ==
  /\ Submitted => prompt.session = sessionID
  /\ \A i \in DOMAIN overlapping :
       overlapping[i].pc = "pumping" => overlapping[i].prompted = overlapping[i].sessionID

\* the event carries the sessionID of a session other than the active one
Foreign(e) == e.props.present /\ e.props.sid # NoSid /\ e.props.sid # sessionID

\* the list without the events of other sessions
RECURSIVE WithoutForeign(_)
WithoutForeign(L) ==
  IF L = <<>> THEN <<>>
  ELSE (IF Foreign(Head(L)) THEN <<>> ELSE <<Head(L)>>) \o WithoutForeign(Tail(L))

\* the token usage and the session error the loop of query() holds after
\* handling the events of the list
RECURSIVE UsageOver(_)
UsageOver(L) ==
  IF L = <<>> THEN NoUsage
  ELSE NextTokenUsage(UsageOver(SubSeq(L, 1, Len(L) - 1)), L[Len(L)])

RECURSIVE ErrorOver(_)
ErrorOver(L) ==
  IF L = <<>> THEN NullStr
  ELSE NextSessionError(ErrorOver(SubSeq(L, 1, Len(L) - 1)), L[Len(L)])

\* C33: events that carry the sessionID of another session never influence
\* a query: its token usage, its session error and its answer are those of
\* the delivered events with the events of other sessions left out, so
\* such an event cannot make the query fail, change its usage or add to
\* its answer.
C33_ForeignEventsDoNotInfluence ==
  /\ tokenUsage = UsageOver(WithoutForeign(consumed))
  /\ thrown = NullStr => sessionError = ErrorOver(WithoutForeign(consumed))
  /\ extractAnswerFromEvents(collectedEvents) = extractAnswerFromEvents(WithoutForeign(consumed))
  /\ (outcome.op = "query" /\ outcome.kind = "result") =>
       /\ outcome.tokenUsage = UsageOver(WithoutForeign(consumed))
       /\ outcome.response = ResponseOf(WithoutForeign(consumed))

\* C33 witness: a session.error, a message.updated with tokens and a text
\* part, all of another session, were delivered and the query returned
\* the placeholder without token usage
C33_Witness ==
  /\ outcome.op = "query"
  /\ outcome.kind = "result"
  /\ outcome.tokenUsage = NoUsage
  /\ outcome.response = Placeholder
  /\ \E i, j, k \in 1..Len(consumed) :
       /\ Foreign(consumed[i]) /\ consumed[i].type = "session.error"
       /\ Foreign(consumed[j]) /\ consumed[j].type = "message.updated"
       /\ Foreign(consumed[k]) /\ consumed[k].type = "message.part.updated"

\* this step is the line handler taking a line
TakesLine == handled' # handled

\* the line taken is 'back' (in any case) or '0'
TakesBack == IsBackCommand(handled'.input)

\* the line taken is not an index into the list that was offered
TakesInvalidIndex ==
  ~IsBackCommand(handled'.input) /\ InvalidIndex(IndexOf(handled'.input), handled'.offered)

\* the selection state and the model are as the handler found them
LeavesSelection == state' = handled'.from /\ currentModel' = handled'.before

\* C34: in the selection dialogue 'back' or '0' moves selecting_model to
\* selecting_provider and selecting_provider or entering_api_key to normal
\* and never changes the model; the model changes only when a line taken in
\* selecting_model is a valid index, it then becomes the model of that
\* index and the state becomes normal; an invalid index leaves the
\* selection state and the model as they were.
C34_SelectionTransitions ==
  [][/\ (TakesLine /\ TakesBack /\ handled'.from = "selecting_model")
          => state' = "selecting_provider" /\ currentModel' = handled'.before
     /\ (TakesLine /\ TakesBack /\ handled'.from \in {"selecting_provider", "entering_api_key"})
          => state' = "normal" /\ currentModel' = handled'.before
     /\ currentModel' # currentModel
          => /\ TakesLine
             /\ handled'.from = "selecting_model"
             /\ ~TakesBack
             /\ ~TakesInvalidIndex
     /\ (TakesLine /\ handled'.from = "selecting_model" /\ ~TakesBack /\ ~TakesInvalidIndex)
          => /\ state' = "normal"
             /\ currentModel'
                  = FullModelId(selectedProvider, handled'.offered[IndexOf(handled'.input) + 1])
     /\ (TakesLine /\ handled'.from \in {"selecting_provider", "selecting_model"}
           /\ TakesInvalidIndex)
          => LeavesSelection]_vars

\* C34 witness: after a model was chosen by its index, a later selection
\* was taken back from selecting_model to selecting_provider
C34_Witness ==
  /\ IsBackCommand(handled.input)
  /\ handled.from = "selecting_model"
  /\ state = "selecting_provider"
  /\ currentModel # DefaultModel
  /\ currentModel = handled.before

====
